---- MODULE Spec2Model ----
(***************************************************************************)
(* State-machine model of the geoembed demo client:                        *)
(*   App        (src/frontend/src/App.jsx)                                 *)
(*   UploadPanel, SearchBox (src/frontend/src/components/UploadPanel.jsx)  *)
(*   MapView    (src/unnamed/part_000)                                     *)
(*                                                                         *)
(* JavaScript runs one event-loop turn at a time, so every action below is *)
(* one turn: a DOM event handler, or the continuation of an await / a      *)
(* promise callback, together with the React render and the effects that   *)
(* the turn's state updates cause.  A React state variable holds the value *)
(* most recently passed to its setter.                                     *)
(***************************************************************************)
EXTENDS Integers, Sequences, FiniteSets, TLC

VARIABLES
    mounted,        \* App has been mounted (mount effects have run)
    cities,         \* App: useState([])                         App.jsx:9
    searchResults,  \* App: useState([])                         App.jsx:10
    loading,        \* App: useState(false)                      App.jsx:11
    citiesFetch,    \* the fetch of /data/sample_cities.geojson: "idle" | "pending" | "done"
    modelsFetch,    \* the fetch of /embed/vector/models:        "idle" | "pending" | "done"
    requests,       \* every POST /search/semantic issued, in issue order
    lastDone,       \* history: index in requests of the request whose doSearch finished last (0: none)
    cleared,        \* history: an empty-query doSearch ran after the request lastDone finished
    query,          \* SearchBox: useState('')                   UploadPanel.jsx:49
    file,           \* UploadPanel: useState(null)               UploadPanel.jsx:4
    status,         \* UploadPanel: useState(null)               UploadPanel.jsx:5
    uploads,        \* every upload attempt (file read, then POST /embed/vector/), in start order
    mapRef,         \* MapView: useRef(null) - number of the map instance held, 0 = null
    mapsCreated,    \* history: how many times L.map('map') ran
    layers,         \* the layers of the Leaflet map, in the order they were added
    crashed,        \* an exception escaped a render or an effect (React unmounts the tree)
    lastOp          \* history: the handler / continuation that ran in the last turn

vars == << mounted, cities, searchResults, loading, citiesFetch, modelsFetch,
           requests, lastDone, cleared, query, file, status, uploads,
           mapRef, mapsCreated, layers, crashed, lastOp >>

appVars    == << cities, searchResults, loading >>
uploadVars == << file, status, uploads >>
mapVars    == << mapRef, mapsCreated, layers >>

----------------------------------------------------------------------------
(* Bounds of the model *)

MaxSearches == 2    \* POST /search/semantic requests issued in one run
MaxUploads  == 2    \* upload attempts (file reads) started in one run

----------------------------------------------------------------------------
(* JavaScript values.  A JSON value that the code expects to be an array is  *)
(* modelled as [t |-> "array", v |-> <<...>>]; anything else a server may    *)
(* send in its place (an object, a string, null ...) as [t |-> "other"].     *)

Arr(s)    == [t |-> "array", v |-> s]
NonArray  == [t |-> "other", v |-> << >>]
EmptyList == Arr(<< >>)

NoGeom == [type |-> "none", coordinates |-> << >>]          \* undefined
Point(lon, lat) == [type |-> "Point", coordinates |-> <<lon, lat>>]
PointNoCoords   == [type |-> "Point", coordinates |-> << >>] \* coordinates undefined
Polygon         == [type |-> "Polygon", coordinates |-> <<0, 0>>]

(* Search result items: {id, name, similarity, geometry?, geometry_json?}.   *)
(* similarity is kept in thousandths (876 stands for 0.876).                 *)
ItemA == [id |-> 1, name |-> "a", similarity |-> 876,
          geometry |-> Point(10, 20), geometry_json |-> NoGeom]
ItemB == [id |-> 2, name |-> "b", similarity |-> 500,
          geometry |-> NoGeom, geometry_json |-> Point(30, 40)]
ItemN == [id |-> 3, name |-> "n", similarity |-> 250,
          geometry |-> NoGeom, geometry_json |-> NoGeom]
ItemG == [id |-> 4, name |-> "g", similarity |-> 125,
          geometry |-> Polygon, geometry_json |-> NoGeom]
ItemX == [id |-> 5, name |-> "x", similarity |-> 100,
          geometry |-> PointNoCoords, geometry_json |-> NoGeom]

(* The bodies a 2xx search response may carry once parsed. *)
Payloads == { EmptyList, Arr(<<ItemA>>), Arr(<<ItemN, ItemG, ItemB>>),
              Arr(<<ItemA, ItemX>>), NonArray }

(* City features: {geometry: {coordinates: [lon, lat]}, properties: {name}}. *)
CityX       == [geometry |-> Point(10, 20), name |-> "X", hasProps |-> TRUE]
CityY       == [geometry |-> Point(30, 40), name |-> "Y", hasProps |-> TRUE]
CityNoGeom  == [geometry |-> NoGeom, name |-> "Z", hasProps |-> TRUE]
CityNoProps == [geometry |-> Point(50, 60), name |-> "", hasProps |-> FALSE]

(* What the fetch of the static dataset may end in. *)
DatasetOutcomes ==
    { [kind |-> "network",  features |-> EmptyList],   \* fetch rejects
      [kind |-> "notjson",  features |-> EmptyList],   \* res.json() rejects
      [kind |-> "null",     features |-> EmptyList],   \* the document is null
      [kind |-> "nofeat",   features |-> EmptyList],   \* an object without features
      [kind |-> "features", features |-> Arr(<<CityX>>)],
      [kind |-> "features", features |-> Arr(<<CityX, CityY>>)],
      [kind |-> "features", features |-> Arr(<<CityY, CityNoGeom>>)],
      [kind |-> "features", features |-> Arr(<<CityNoProps>>)],
      [kind |-> "features", features |-> NonArray] }   \* features is truthy, not an array

Queries == { "", "city" }

DefaultTopK == 5

Op(name, arg) == [op |-> name, arg |-> arg]

----------------------------------------------------------------------------
(* MapView *)

TileLayer == [kind |-> "tile", pane |-> "tilePane", lat |-> 0, lon |-> 0,
              popup |-> << >>]

(* options.pane of a layer as Leaflet creates it: L.marker draws into the    *)
(* marker pane, L.circleMarker is a vector path and draws into the overlay   *)
(* pane.                                                                     *)
PaneOf(kind) ==
    CASE kind = "marker"       -> "markerPane"
      [] kind = "circleMarker" -> "overlayPane"
      [] OTHER                 -> "tilePane"

(* (similarity * 100).toFixed(1), similarity in thousandths: <<87, 6>> is "87.6" *)
Percent(similarity) == << similarity \div 10, similarity % 10 >>

CityMarker(f) ==
    [kind |-> "marker", pane |-> PaneOf("marker"),
     lat |-> f.geometry.coordinates[2], lon |-> f.geometry.coordinates[1],
     popup |-> IF f.hasProps THEN << f.name >> ELSE << >>]

ResultGeom(f) == IF f.geometry # NoGeom THEN f.geometry ELSE f.geometry_json

ResultMarker(f) ==
    [kind |-> "circleMarker", pane |-> PaneOf("circleMarker"),
     lat |-> ResultGeom(f).coordinates[2], lon |-> ResultGeom(f).coordinates[1],
     popup |-> << f.name, Percent(f.similarity) >>]

(* mapRef.current.eachLayer(layer => { if (layer.options.pane === 'markerPane') removeLayer }) *)
RemoveMarkers(lay) == SelectSeq(lay, LAMBDA l : l.pane # "markerPane")

(* cities.forEach(...): the markers are added in order until a feature throws. *)
(* Result: the layers, and whether an exception escaped.                       *)
RECURSIVE AddCities(_, _, _)
AddCities(fs, i, lay) ==
    IF i > Len(fs) THEN [layers |-> lay, threw |-> FALSE]
    ELSE IF fs[i].geometry = NoGeom \/ fs[i].geometry.coordinates = << >>
         THEN [layers |-> lay, threw |-> TRUE]
    ELSE IF ~fs[i].hasProps
         THEN [layers |-> Append(lay, CityMarker(fs[i])), threw |-> TRUE]
    ELSE AddCities(fs, i + 1, Append(lay, CityMarker(fs[i])))

(* searchResults.forEach(...) *)
RECURSIVE AddResults(_, _, _)
AddResults(rs, i, lay) ==
    IF i > Len(rs) THEN [layers |-> lay, threw |-> FALSE]
    ELSE IF ResultGeom(rs[i]) = NoGeom \/ ResultGeom(rs[i]).type # "Point"
         THEN AddResults(rs, i + 1, lay)
    ELSE IF ResultGeom(rs[i]).coordinates = << >>
         THEN [layers |-> lay, threw |-> TRUE]
    ELSE AddResults(rs, i + 1, Append(lay, ResultMarker(rs[i])))

(* The second effect of MapView, run for the props (c, r) on the layers lay. *)
MarkerEffect(ref, c, r, lay) ==
    IF ref = 0 THEN [layers |-> lay, threw |-> FALSE]
    ELSE IF c.t # "array" THEN [layers |-> RemoveMarkers(lay), threw |-> TRUE]
    ELSE LET a == AddCities(c.v, 1, RemoveMarkers(lay))
         IN  IF a.threw THEN a
             ELSE IF r.t # "array" THEN [layers |-> a.layers, threw |-> TRUE]
             ELSE AddResults(r.v, 1, a.layers)

(* SearchResults({results}): results.map(...) on a value that is no array throws *)
SearchResultsThrows(r) == r.t # "array"

(* The map L.map('map') creates, with its tile layer, as the value of the    *)
(* ref, the count of maps created and the layers of the map the ref holds.   *)
NewMap(created) ==
    [ref |-> created + 1, created |-> created + 1, layers |-> << TileLayer >>]

(* a first effect with neither the dependency list nor the guard: a map is   *)
(* created on every commit                                                   *)
InitEffectEveryCommit(ref, created, lay, first) == NewMap(created)

(* The first effect of MapView.  Its dependency list is empty: React runs    *)
(* it after the first commit only (first); its body creates the map unless   *)
(* the ref already holds one.                                                *)
InitEffect(ref, created, lay, first) ==
    IF first /\ ref = 0
    THEN NewMap(created)
    ELSE [ref |-> ref, created |-> created, layers |-> lay]

(* One React commit after cities or searchResults was set to (c, r): the     *)
(* render of App, then the effects of MapView.  Nothing renders once the     *)
(* tree has been unmounted by an uncaught exception.                         *)
Commit(c, r) ==
    IF crashed THEN UNCHANGED << mapVars, crashed >>
    ELSE IF SearchResultsThrows(r)
         THEN crashed' = TRUE /\ UNCHANGED mapVars
    ELSE LET m == InitEffect(mapRef, mapsCreated, layers, FALSE)
             e == MarkerEffect(m.ref, c, r, m.layers)
         IN  /\ mapRef' = m.ref
             /\ mapsCreated' = m.created
             /\ layers' = e.layers
             /\ crashed' = e.threw

----------------------------------------------------------------------------
(* Mount: the first effect of MapView creates the map, its second effect     *)
(* runs on the empty lists, then the effect of App starts the two fetches.   *)

Mount ==
    /\ ~mounted
    /\ mounted' = TRUE
    /\ LET m == InitEffect(mapRef, mapsCreated, layers, TRUE)
       IN  /\ mapRef' = m.ref
           /\ mapsCreated' = m.created
           /\ layers' = MarkerEffect(m.ref, cities, searchResults, m.layers).layers
    /\ modelsFetch' = "pending"
    /\ citiesFetch' = "pending"
    /\ lastOp' = Op("mount", "")
    /\ UNCHANGED << appVars, requests, lastDone, cleared, query, uploadVars, crashed >>

(* fetch(models).catch(() => {}): the response is dropped, a failure ignored *)
ModelsFetchEnds ==
    /\ modelsFetch = "pending"
    /\ modelsFetch' = "done"
    /\ lastOp' = Op("modelsFetch", "")
    /\ UNCHANGED << mounted, appVars, citiesFetch, requests, lastDone, cleared,
                    query, uploadVars, mapVars, crashed >>

(* .then(res => res.json()).then(data => setCities(data.features || [])).catch(() => {}) *)
(* data.features without the || [] default *)
CitiesOfNoDefault(d) == IF d.kind = "features" THEN d.features ELSE NonArray

CitiesOf(d) == IF d.kind = "features" THEN d.features ELSE EmptyList

CitiesFetchEnds(d) ==
    /\ citiesFetch = "pending"
    /\ citiesFetch' = "done"
    /\ lastOp' = Op("citiesFetch", d.kind)
    /\ IF d.kind \in {"network", "notjson", "null"}
       THEN UNCHANGED << cities, mapVars, crashed >>
       ELSE /\ cities' = CitiesOf(d)
            /\ Commit(CitiesOf(d), searchResults)
    /\ UNCHANGED << mounted, searchResults, loading, modelsFetch, requests,
                    lastDone, cleared, query, uploadVars >>

----------------------------------------------------------------------------
(* App.doSearch *)

Request(q, topK) ==
    [query_text |-> q, k |-> topK, stage |-> "sent", result |-> "none",
     data |-> EmptyList]

Finished(i, how, d) ==
    [requests EXCEPT ![i].stage = "done", ![i].result = how, ![i].data = d]

InFlight == { i \in 1..Len(requests) : requests[i].stage # "done" }

(* What doSearch passes to setSearchResults on each of its paths; prev is    *)
(* the list held before.                                                     *)
ResultsOnEmptyQueryKeeps(prev) == prev
ResultsOnEmptyQuery(prev)   == EmptyList        \* App.jsx:24
ResultsOnSuccessMerges(prev, data) == Arr(prev.v \o data.v)
ResultsOnSuccess(prev, data) == data            \* App.jsx:34
ResultsOnHttpErrorKeeps(prev) == prev
ResultsOnHttpError(prev)    == EmptyList        \* App.jsx:36
ResultsOnException(prev)    == EmptyList        \* App.jsx:39
(* what the finally block passes to setLoading *)
LoadingOnFinallyKeeps(prev) == prev
LoadingOnFinally(prev)      == FALSE            \* App.jsx:41

(* doSearch with setLoading(true) ahead of the empty-query return *)
doSearchLoadsFirst(q, topK) ==
    /\ loading' = TRUE
    /\ IF q = ""
       THEN /\ searchResults' = EmptyList
            /\ Commit(cities, EmptyList)
            /\ cleared' = TRUE
            /\ UNCHANGED << cities, requests, lastDone >>
       ELSE /\ Len(requests) < MaxSearches
            /\ requests' = Append(requests, Request(q, topK))
            /\ UNCHANGED << cities, searchResults, lastDone, cleared, mapVars, crashed >>

(* doSearch(q, topK): the synchronous part, up to the first await *)
doSearch(q, topK) ==
    IF q = ""
    THEN /\ searchResults' = ResultsOnEmptyQuery(searchResults)
         /\ Commit(cities, ResultsOnEmptyQuery(searchResults))
         /\ cleared' = TRUE
         /\ UNCHANGED << cities, loading, requests, lastDone >>
    ELSE /\ Len(requests) < MaxSearches
         /\ loading' = TRUE
         /\ requests' = Append(requests, Request(q, topK))
         /\ UNCHANGED << cities, searchResults, lastDone, cleared, mapVars, crashed >>

(* the continuation of doSearch once request i is over: setSearchResults(r), *)
(* then the finally block                                                    *)
doSearchEnds(i, how, d, r) ==
    /\ requests' = Finished(i, how, d)
    /\ searchResults' = r
    /\ loading' = LoadingOnFinally(loading)
    /\ Commit(cities, r)
    /\ lastDone' = i
    /\ cleared' = FALSE
    /\ lastOp' = Op("doSearchEnds", how)
    /\ UNCHANGED << mounted, cities, citiesFetch, modelsFetch, query, uploadVars >>

(* await fetch(...) rejects: the catch block *)
SearchFetchRejects(i) ==
    /\ requests[i].stage = "sent"
    /\ doSearchEnds(i, "network", EmptyList, ResultsOnException(searchResults))

(* await fetch(...) resolves with res.ok false *)
SearchHttpError(i) ==
    /\ requests[i].stage = "sent"
    /\ doSearchEnds(i, "http", EmptyList, ResultsOnHttpError(searchResults))

(* await fetch(...) resolves with res.ok true: doSearch awaits res.json() *)
SearchHttpOk(i) ==
    /\ requests[i].stage = "sent"
    /\ requests' = [requests EXCEPT ![i].stage = "body"]
    /\ lastOp' = Op("searchHttpOk", "")
    /\ UNCHANGED << mounted, appVars, citiesFetch, modelsFetch, lastDone, cleared,
                    query, uploadVars, mapVars, crashed >>

(* await res.json() resolves with the parsed body d *)
SearchBodyParsed(i, d) ==
    /\ requests[i].stage = "body"
    /\ doSearchEnds(i, "ok", d, ResultsOnSuccess(searchResults, d))

(* await res.json() rejects: the catch block *)
SearchBodyFails(i) ==
    /\ requests[i].stage = "body"
    /\ doSearchEnds(i, "parse", EmptyList, ResultsOnException(searchResults))

----------------------------------------------------------------------------
(* SearchBox *)

(* <input onChange={e => setQuery(e.target.value)}> *)
TypeQuery(q) ==
    /\ mounted /\ ~crashed
    /\ query' = q
    /\ lastOp' = Op("setQuery", q)
    /\ UNCHANGED << mounted, appVars, citiesFetch, modelsFetch, requests, lastDone,
                    cleared, uploadVars, mapVars, crashed >>

(* handleSubmit(e): e.preventDefault(); onSearch(query) *)
handleSubmit ==
    /\ doSearch(query, DefaultTopK)
    /\ lastOp' = Op("doSearch", query)
    /\ UNCHANGED << mounted, citiesFetch, modelsFetch, query, uploadVars >>

(* <button type="submit" disabled={loading}> *)
SubmitDisabled == loading

(* The user activates the submit button (a click, or Enter in the text box): *)
(* the browser fires submit only while the button is enabled.                *)
ClickSearch ==
    /\ mounted /\ ~crashed
    /\ ~SubmitDisabled
    /\ handleSubmit

(* A submit event that does not come from the button (form.requestSubmit(),  *)
(* a dispatched submit event): the form's onSubmit runs whatever the         *)
(* button's state.                                                           *)
SubmitEvent ==
    /\ mounted /\ ~crashed
    /\ handleSubmit

----------------------------------------------------------------------------
(* JSON, as UploadPanel uses it.  A JSON text is kept as its syntax tree; a  *)
(* number keeps its literal.  JSON.parse turns a literal into an IEEE-754    *)
(* double, JSON.stringify writes a double back as the shortest literal that  *)
(* reads as the same double, and writes a non-finite number as null.         *)

NumberLiterals == { "1", "2", "9007199254740993", "1e999" }

(* JSON.parse of a number literal: the nearest double *)
ParseNumber(lit) ==
    CASE lit = "9007199254740993" -> "9007199254740992"   \* 2^53 + 1 is no double
      [] lit = "1e999"            -> "Infinity"           \* beyond the largest double
      [] OTHER                    -> lit

(* JSON.stringify of a number *)
StringifyNumber(d) == IF d = "Infinity" THEN "null" ELSE d

(* The texts a selected file may hold.  kind:                               *)
(*   "invalid"   not JSON                                                   *)
(*   "null"      the JSON text null                                         *)
(*   "nofeat"    a JSON value without a features member ({"type": ...}, 5)  *)
(*   "featother" an object whose features member is not an array           *)
(*   "featarray" an object whose features member is the array of features  *)
(* A feature is {"id": <number>}.                                           *)
Text(kind, fs) == [kind |-> kind, features |-> fs]
Feature(lit)   == [id |-> lit]

Files ==
    { Text("invalid", << >>), Text("null", << >>), Text("nofeat", << >>),
      Text("featother", << >>),
      Text("featarray", << Feature("1"), Feature("2") >>),
      Text("featarray", << Feature("9007199254740993"), Feature("1e999") >>) }

NoFile == Text("nofile", << >>)     \* useState(null) / e.target.files[0] undefined
NoBody == Text("nobody", << >>)

(* JSON.parse(text): the text whose numbers are doubles, or an exception *)
JsonParse(text) ==
    [threw |-> text.kind = "invalid",
     value |-> Text(text.kind,
                    [i \in 1..Len(text.features) |->
                        Feature(ParseNumber(text.features[i].id))])]

(* JSON.stringify({features}) for the features member of a parsed value:    *)
(* an undefined member is left out of the text                              *)
JsonStringify(value) ==
    Text(value.kind,
         [i \in 1..Len(value.features) |->
             Feature(StringifyNumber(value.features[i].id))])

----------------------------------------------------------------------------
(* UploadPanel *)

NoStatus      == "(null)"
StatusOk      == "Upload and embedding succeeded."
StatusFailed  == "Upload failed."
StatusInvalid == "Invalid GeoJSON file."

(* One upload attempt: the file read, its stage ("reading", "readfailed",   *)
(* "posting", "done"), and the body of the POST it issued (NoBody: none).   *)
Attempt(f)  == [file |-> f, stage |-> "reading", body |-> NoBody]

(* the POSTs to /embed/vector/ issued so far *)
UploadCalls == { i \in 1..Len(uploads) : uploads[i].body # NoBody }

(* <input type="file" onChange={e => setFile(e.target.files[0])}> *)
SelectFile(f) ==
    /\ mounted /\ ~crashed
    /\ file' = f
    /\ lastOp' = Op("setFile", f.kind)
    /\ UNCHANGED << mounted, appVars, citiesFetch, modelsFetch, requests, lastDone,
                    cleared, query, status, uploads, mapVars, crashed >>

(* <button onClick={uploadFile} disabled={!file}> *)
UploadDisabled == file = NoFile

(* uploadFile without its first line: the read starts whatever file holds *)
uploadFileUnguarded ==
    /\ mounted /\ ~crashed
    /\ Len(uploads) < MaxUploads
    /\ uploads' = Append(uploads, Attempt(file))
    /\ lastOp' = Op("uploadFile", file.kind)
    /\ UNCHANGED << mounted, appVars, citiesFetch, modelsFetch, requests, lastDone,
                    cleared, query, file, status, mapVars, crashed >>

(* uploadFile(): if (!file) return; reader.readAsText(file) *)
uploadFile ==
    /\ mounted /\ ~crashed
    /\ IF file = NoFile
       THEN UNCHANGED uploads
       ELSE /\ Len(uploads) < MaxUploads
            /\ uploads' = Append(uploads, Attempt(file))
    /\ lastOp' = Op("uploadFile", file.kind)
    /\ UNCHANGED << mounted, appVars, citiesFetch, modelsFetch, requests, lastDone,
                    cleared, query, file, status, mapVars, crashed >>

uploadOther == << mounted, appVars, citiesFetch, modelsFetch, requests, lastDone,
                  cleared, query, file, mapVars, crashed >>

(* The read fails: the reader has no onerror handler, nothing happens. *)
ReadFails(i) ==
    /\ uploads[i].stage = "reading"
    /\ uploads' = [uploads EXCEPT ![i].stage = "readfailed"]
    /\ lastOp' = Op("readFails", "")
    /\ UNCHANGED << status >>
    /\ UNCHANGED uploadOther

(* reader.onload up to its await: JSON.parse(reader.result).features, then   *)
(* the fetch; an exception goes to the catch block.                          *)
ParseThrows(text) == JsonParse(text).threw \/ JsonParse(text).value.kind = "null"

(* reader.onload with JSON.parse outside the try block *)
ReaderOnloadUncaught(i) ==
    /\ uploads[i].stage = "reading"
    /\ IF ParseThrows(uploads[i].file)
       THEN uploads' = [uploads EXCEPT ![i].stage = "done"]
       ELSE uploads' = [uploads EXCEPT
                          ![i].stage = "posting",
                          ![i].body = JsonStringify(JsonParse(uploads[i].file).value)]
    /\ UNCHANGED status
    /\ lastOp' = Op("onload", "")
    /\ UNCHANGED uploadOther

ReaderOnload(i) ==
    /\ uploads[i].stage = "reading"
    /\ IF ParseThrows(uploads[i].file)
       THEN /\ status' = StatusInvalid
            /\ uploads' = [uploads EXCEPT ![i].stage = "done"]
       ELSE /\ uploads' = [uploads EXCEPT
                              ![i].stage = "posting",
                              ![i].body = JsonStringify(JsonParse(uploads[i].file).value)]
            /\ UNCHANGED status
    /\ lastOp' = Op("onload", "")
    /\ UNCHANGED uploadOther

(* what reader.onload passes to setStatus once the POST is over *)
StatusOnOk        == StatusOk          \* UploadPanel.jsx:19
StatusOnHttpError == StatusFailed      \* UploadPanel.jsx:21
StatusOnException == StatusInvalid     \* UploadPanel.jsx:24

UploadEnds(i, how, st) ==
    /\ uploads[i].stage = "posting"
    /\ uploads' = [uploads EXCEPT ![i].stage = "done"]
    /\ status' = st
    /\ lastOp' = Op("uploadEnds", how)
    /\ UNCHANGED uploadOther

UploadHttpOk(i)       == UploadEnds(i, "ok", StatusOnOk)
UploadHttpError(i)    == UploadEnds(i, "http", StatusOnHttpError)
UploadFetchRejects(i) == UploadEnds(i, "network", StatusOnException)

----------------------------------------------------------------------------

Init ==
    /\ mounted = FALSE
    /\ cities = EmptyList
    /\ searchResults = EmptyList
    /\ loading = FALSE
    /\ citiesFetch = "idle"
    /\ modelsFetch = "idle"
    /\ requests = << >>
    /\ lastDone = 0
    /\ cleared = FALSE
    /\ query = ""
    /\ file = NoFile
    /\ status = NoStatus
    /\ uploads = << >>
    /\ mapRef = 0
    /\ mapsCreated = 0
    /\ layers = << >>
    /\ crashed = FALSE
    /\ lastOp = Op("none", "")

(* SearchBox and doSearch, with the redraws of MapView they cause *)
SearchNext ==
    \/ Mount
    \/ \E q \in Queries : TypeQuery(q)
    \/ ClickSearch
    \/ SubmitEvent
    \/ \E i \in 1..Len(requests) :
          \/ SearchFetchRejects(i)
          \/ SearchHttpError(i)
          \/ SearchHttpOk(i)
          \/ \E d \in Payloads : SearchBodyParsed(i, d)
          \/ SearchBodyFails(i)

(* App, SearchBox and MapView *)
AppNext ==
    \/ ModelsFetchEnds
    \/ \E d \in DatasetOutcomes : CitiesFetchEnds(d)
    \/ SearchNext

(* UploadPanel *)
UploadNext ==
    \/ \E f \in Files \cup {NoFile} : SelectFile(f)
    \/ uploadFile
    \/ \E i \in 1..Len(uploads) :
          \/ ReadFails(i)
          \/ ReaderOnload(i)
          \/ UploadHttpOk(i)
          \/ UploadHttpError(i)
          \/ UploadFetchRejects(i)

Next == AppNext \/ UploadNext

Spec == Init /\ [][Next]_vars

(* UploadPanel shares no state with App, SearchBox and MapView: the two     *)
(* halves are checked apart.                                                *)
AppSpec == Init /\ [][AppNext]_vars

(* Every request that was issued ends: the transport answers or fails, and  *)
(* a body that is being read is read to its end or fails.                   *)
RequestEnds(i) ==
    /\ i \in 1..Len(requests)
    /\ \/ SearchFetchRejects(i)
       \/ SearchHttpError(i)
       \/ SearchHttpOk(i)
       \/ \E d \in Payloads : SearchBodyParsed(i, d)
       \/ SearchBodyFails(i)

(* The searches alone (the two fetches of the mount effect touch neither    *)
(* the requests nor the loading flag), every request ending.                *)
SearchLiveSpec ==
    /\ Init /\ [][SearchNext]_vars
    /\ \A i \in 1..MaxSearches : WF_vars(RequestEnds(i))

UploadSpec == Init /\ [][Mount \/ UploadNext]_vars

----------------------------------------------------------------------------
(* Properties *)

Done(i)        == i \in 1..Len(requests) /\ requests[i].stage = "done"
FinishedNow(i) == i \in 1..Len(requests) /\ requests[i].stage # "done"
                  /\ requests'[i].stage = "done"

CircleMarkers == SelectSeq(layers, LAMBDA l : l.kind = "circleMarker")

HasPoint(f) == ResultGeom(f) # NoGeom /\ ResultGeom(f).type = "Point"

(* one circle marker per item with Point geometry, in the order of the list *)
ExpectedMarkers(rs) ==
    LET pts == SelectSeq(rs, HasPoint)
    IN  [i \in 1..Len(pts) |-> ResultMarker(pts[i])]

(* C1: while the UI is up, the search-result markers on the map are exactly  *)
(* one per item of the current search result list that carries Point         *)
(* geometry; no marker of an earlier result set remains.                     *)
C1_DynamicMarkersAreCurrentResults ==
    (mounted /\ ~crashed) => CircleMarkers = ExpectedMarkers(searchResults.v)

(* the result set the response of a finished request stands for: the parsed  *)
(* body of a 2xx response, the empty list in every other case                *)
Outcome(req) == IF req.result = "ok" THEN req.data ELSE EmptyList

(* C2 as stated: the stored results are always the outcome of the request    *)
(* that completed last.                                                      *)
C2_ResultsAreLastCompletedRequest ==
    lastDone # 0 => searchResults = Outcome(requests[lastDone])

(* C2 amended: the stored results are the outcome of the search invocation   *)
(* that completed last - the request that completed last, whatever the       *)
(* order of issue, or the empty list when an empty-query invocation ran      *)
(* after it.                                                                 *)
C2_ResultsAreLastCompletedInvocation ==
    /\ (lastDone # 0 /\ ~cleared) => searchResults = Outcome(requests[lastDone])
    /\ cleared => searchResults = EmptyList
    /\ (lastDone = 0 /\ ~cleared) => searchResults = EmptyList

(* two overlapping requests, the one issued first completed last and its     *)
(* result is the one stored, replacing the other's                           *)
C2_Witness ==
    /\ Len(requests) = 2 /\ Done(1) /\ Done(2)
    /\ lastDone = 1 /\ ~cleared
    /\ requests[1].data = Arr(<<ItemA>>)
    /\ requests[2].data = Arr(<<ItemN, ItemG, ItemB>>)
    /\ searchResults = Arr(<<ItemA>>)

(* C3: a search with the empty query sets the results to the empty list at   *)
(* once, issues no request and leaves the loading flag alone.                *)
C3_EmptyQueryClearsWithoutRequest ==
    [][ (lastOp'.op = "doSearch" /\ lastOp'.arg = "")
          => /\ searchResults' = EmptyList
             /\ requests' = requests
             /\ loading' = loading ]_vars

(* an empty-query search has just cleared the non-empty result of a request  *)
(* while another request was in flight                                       *)
C3_Witness ==
    /\ lastOp = Op("doSearch", "")
    /\ cleared /\ lastDone # 0 /\ Outcome(requests[lastDone]) = Arr(<<ItemA>>)
    /\ searchResults = EmptyList
    /\ loading /\ InFlight # {}

(* C4: when a search request ends in a non-2xx status, a transport failure   *)
(* or an unparsable body, the results become the empty list and loading      *)
(* becomes false.                                                            *)
C4_FailedSearchClears ==
    [][ \A i \in 1..Len(requests) :
          (FinishedNow(i) /\ requests'[i].result \in {"http", "network", "parse"})
             => (searchResults' = EmptyList /\ loading' = FALSE) ]_vars

(* a failed request has just replaced the non-empty result of an earlier one *)
C4_Witness ==
    /\ Len(requests) = 2 /\ Done(1) /\ Done(2)
    /\ requests[1].result = "ok" /\ requests[1].data = Arr(<<ItemA>>)
    /\ requests[2].result \in {"http", "network", "parse"}
    /\ lastDone = 2 /\ lastOp.op = "doSearchEnds"
    /\ searchResults = EmptyList /\ ~loading

(* C5: under the assumption that every request ends, every request that was  *)
(* issued is completed by doSearch, and a loading flag that is true becomes  *)
(* false again.                                                              *)
C5_LoadingEventuallyFalse ==
    /\ \A i \in 1..MaxSearches : (i \in InFlight) ~> Done(i)
    /\ loading ~> ~loading

(* every request issued has ended, one of them otherwise than in success,    *)
(* and the loading flag is back to false                                     *)
C5_Witness ==
    /\ Len(requests) = 2 /\ InFlight = {}
    /\ requests[1].result = "ok" /\ requests[2].result = "parse"
    /\ ~loading

(* C6: the loading flag is true only while a search request is in flight.    *)
C6_LoadingOnlyInFlight == loading => InFlight # {}

(* a request has ended and a later one is in flight, loading is true *)
C6_Witness ==
    /\ loading /\ Len(requests) = 2 /\ Done(1) /\ InFlight = {2}

(* C7: the search callback is invoked only while loading is false.           *)
C7_NoSearchWhileLoading ==
    [][ lastOp'.op = "doSearch" => ~loading ]_vars

(* C8: no outcome of a fetch, a search or a redraw lets an exception escape. *)
C8_NeverCrashes == ~crashed

(* attempt i has just run reader.onload *)
OnloadRan(i) ==
    /\ i \in 1..Len(uploads) /\ uploads[i].stage = "reading"
    /\ lastOp'.op = "onload" /\ uploads'[i].stage # "reading"

(* C9: when the text read from the file is not valid JSON, reader.onload     *)
(* sets the invalid-file status and issues no network call.                  *)
C9_InvalidJsonNoCall ==
    [][ \A i \in 1..Len(uploads) :
          (OnloadRan(i) /\ uploads[i].file.kind = "invalid")
             => (status' = StatusInvalid /\ UploadCalls' = UploadCalls) ]_vars

(* an attempt on a file that is not JSON has ended: the status is the        *)
(* invalid-file message, replacing the one an earlier upload left, and the   *)
(* attempt issued no call                                                    *)
C9_Witness ==
    /\ Len(uploads) = 2
    /\ uploads[1].file.kind = "featarray" /\ uploads[1].stage = "done"
    /\ uploads[2].file.kind = "invalid" /\ uploads[2].stage = "done"
    /\ lastOp.op = "onload"
    /\ status = StatusInvalid /\ UploadCalls = {1}

(* C10: an attempt on a file holding an object with a features array issues  *)
(* one POST whose body is {features: A}, A the array of the file.            *)
C10_BodyIsInputFeatures ==
    \A i \in 1..Len(uploads) :
        (uploads[i].file.kind = "featarray" /\ uploads[i].stage \in {"posting", "done"})
           => /\ uploads[i].body.kind = "featarray"
              /\ uploads[i].body.features = uploads[i].file.features

(* the POST of attempt i has just ended *)
PostEnded(i) ==
    /\ i \in 1..Len(uploads) /\ uploads[i].stage = "posting"
    /\ uploads'[i].stage = "done"

(* C11: when the POST of an attempt ends, the status becomes the success     *)
(* string on HTTP success and the failure string in every other outcome.     *)
C11_StatusFollowsPostOutcome ==
    [][ \A i \in 1..Len(uploads) :
          PostEnded(i) =>
             status' = IF lastOp'.arg = "ok" THEN StatusOk ELSE StatusFailed ]_vars

(* C12: with no file selected, uploadFile starts no read, issues no call     *)
(* and leaves the status as it is.                                           *)
C12_NoFileNoOp ==
    [][ (lastOp'.op = "uploadFile" /\ file = NoFile)
          => (uploads' = uploads /\ status' = status /\ file' = file) ]_vars

(* uploadFile has just run with no file selected, after an earlier upload    *)
(* succeeded: the status and the attempts are those of that upload           *)
C12_Witness ==
    /\ lastOp = Op("uploadFile", "nofile") /\ file = NoFile
    /\ Len(uploads) = 1 /\ uploads[1].stage = "done" /\ UploadCalls = {1}
    /\ status = StatusOk

TileLayers == SelectSeq(layers, LAMBDA l : l.kind = "tile")

(* C13: at most one map is ever created; once mounted, the ref holds that    *)
(* first map, with its one tile layer, whatever commits and redraws ran.     *)
C13_OneMapInstance ==
    /\ mapsCreated <= 1
    /\ mounted => (mapsCreated = 1 /\ mapRef = 1 /\ Len(TileLayers) = 1)

(* the dataset load and two search completions have each redrawn the map:    *)
(* one map, holding the markers of all three redraws' inputs                 *)
C13_Witness ==
    /\ mapsCreated = 1 /\ mapRef = 1 /\ ~crashed
    /\ citiesFetch = "done" /\ cities = Arr(<<CityX, CityY>>)
    /\ Len(requests) = 2 /\ InFlight = {}
    /\ searchResults = Arr(<<ItemA>>)
    /\ Len(SelectSeq(layers, LAMBDA l : l.kind = "marker")) = 2

DatasetFeatures == { d.features : d \in { x \in DatasetOutcomes : x.kind = "features" } }

(* C14: the city list is empty until the dataset load ends, changes only in  *)
(* the step that ends the load, from the empty list to the features of the   *)
(* dataset (it stays empty when the load fails or the document has no        *)
(* features), and never changes again.                                       *)
C14_CitiesSetOnceByLoad ==
    [][ /\ citiesFetch' # "done" => cities' = EmptyList
        /\ cities' # cities =>
              /\ lastOp'.op = "citiesFetch"
              /\ citiesFetch = "pending" /\ citiesFetch' = "done"
              /\ cities = EmptyList
              /\ cities' \in DatasetFeatures
        /\ (lastOp'.op = "citiesFetch" /\ lastOp'.arg # "features")
              => cities' = EmptyList
        /\ citiesFetch = "done" => cities' = cities ]_vars

(* the list loaded from the dataset is still held after a search completed   *)
(* and an empty-query search cleared its results                             *)
C14_Witness ==
    /\ citiesFetch = "done" /\ cities = Arr(<<CityX>>)
    /\ lastDone # 0 /\ requests[lastDone].result = "ok" /\ cleared
    /\ lastOp = Op("doSearch", "")

StaticMarkers == SelectSeq(layers, LAMBDA l : l.kind = "marker")

(* the marker the claim asks for feature f: latitude the second coordinate,  *)
(* longitude the first, the name in the popup                                *)
IsMarkerOf(l, f) ==
    /\ f.geometry # NoGeom /\ Len(f.geometry.coordinates) = 2
    /\ l.lat = f.geometry.coordinates[2]
    /\ l.lon = f.geometry.coordinates[1]
    /\ f.hasProps /\ l.popup = << f.name >>

(* C15: once mounted, the static markers are one per feature of the current  *)
(* city list, in its order, each at (lat, lon) = (second, first coordinate)  *)
(* with the name in its popup.                                               *)
C15_StaticMarkersAreCities ==
    mounted =>
       /\ Len(StaticMarkers) = Len(cities.v)
       /\ \A i \in 1..Len(StaticMarkers) : IsMarkerOf(StaticMarkers[i], cities.v[i])

(* C16: when the text is valid JSON from which no features array can be     *)
(* taken, reader.onload sets the invalid-file status and issues no call.    *)
C16_NoFeaturesNoCall ==
    [][ \A i \in 1..Len(uploads) :
          (OnloadRan(i) /\ uploads[i].file.kind \in {"null", "nofeat", "featother"})
             => (status' = StatusInvalid /\ UploadCalls' = UploadCalls) ]_vars

(* C17: an attempt that issued its POST never ends with the invalid-file     *)
(* status, whatever the outcome of the request.                              *)
C17_InvalidStatusOnlyFromParse ==
    [][ \A i \in 1..Len(uploads) : PostEnded(i) => status' # StatusInvalid ]_vars

(* C18: whenever a search request is in flight, the loading flag is true.    *)
C18_InFlightImpliesLoading == InFlight # {} => loading

====
